---------------------------- MODULE Spec2Model ----------------------------
(***************************************************************************)
(* Model of Shortest_path_maximum_saving_function.py: the pipeline of      *)
(* maximum_saving (parse the cost matrix, list every vertex's edges by     *)
(* ascending cost, take each vertex's cheapest edge, deduplicate, compute  *)
(* the connected labels in two passes, repair isolated vertices with their *)
(* second-cheapest edge, and subtract the two network costs).              *)
(*                                                                         *)
(* Representation.  A Python string label is a TLA+ string, and row+column *)
(* is string concatenation.  A cell token of the input text is a sequence  *)
(* of one-character strings (<<>> is the empty token, <<"-">> the marker), *)
(* so that texttoint really parses digits.  An edge [row, column, cost] is *)
(* the triple <<row, column, cost>>.  A Python list is a sequence.  The    *)
(* DataFrame is the function df[row, column].  An uncaught IndexError is   *)
(* the final control state pc = "IndexError".                              *)
(***************************************************************************)
EXTENDS Integers, Sequences, FiniteSets, TLC

VARIABLES
    pc,               \* position in maximum_saving / add_isolated_node
    input_network,    \* the text, as rows of cell tokens
    df,               \* the parsed cost table
    all_nodes,        \* get_nodes(df): one cost-sorted edge list per vertex that has edges
    shortest_edges,   \* the working edge list (candidate, deduplicated, repaired)
    connected_nodes,  \* labels found connected by get_connected_nodes
    isolated_nodes,   \* labels of vertices_name not in connected_nodes
    initial_length,   \* add_isolated_node: len(shortest_edges) on entry
    tmp,              \* add_isolated_node: the isolated vertex picked last
    new_node,         \* add_isolated_node: the edge appended last
    all_unique_edges, \* flattened get_unique_nodes(df)
    max_cost,
    min_cost,
    max_saving

vars == <<pc, input_network, df, all_nodes, shortest_edges, connected_nodes,
          isolated_nodes, initial_length, tmp, new_node, all_unique_edges,
          max_cost, min_cost, max_saving>>

(***************************************************************************)
(* Bounds of the model.                                                    *)
(***************************************************************************)
\* Largest cost written into a perturbed cell of an input matrix.
MaxCost == 6

\* Largest number of edges the repair loop may append in the model.  A run
\* that terminates appends at most one edge per initially isolated vertex
\* (at most 5 of the 7 labels), so only runs that repeat an append reach it.
MaxAppend == 6

(***************************************************************************)
(* The fixed label list and small list helpers.                            *)
(***************************************************************************)
vertices_name == <<"A", "B", "C", "D", "E", "F", "G">>

Labels == {vertices_name[i] : i \in 1..Len(vertices_name)}

\* Python: x in list
In(x, list) == \E i \in 1..Len(list) : list[i] = x

\* Python: list.index(x), 0-based; Len(list) when x is absent (never used so)
IndexOf(list, x) ==
    IF In(x, list) THEN (CHOOSE i \in 1..Len(list) :
                            list[i] = x /\ \A j \in 1..(i - 1) : list[j] # x) - 1
    ELSE Len(list)

\* Python: list.remove(x) -- deletes the first element equal to x
Remove(list, x) ==
    LET k == IndexOf(list, x) + 1
    IN  [i \in 1..(Len(list) - 1) |-> IF i < k THEN list[i] ELSE list[i + 1]]

(***************************************************************************)
(* texttoint and wrangle.                                                  *)
(***************************************************************************)
Digits == <<"0", "1", "2", "3", "4", "5", "6", "7", "8", "9">>

DigitValue(ch) == (CHOOSE i \in 1..Len(Digits) : Digits[i] = ch) - 1

RECURSIVE int(_)
int(text) ==
    IF Len(text) = 1 THEN DigitValue(text[1])
    ELSE 10 * int(SubSeq(text, 1, Len(text) - 1)) + DigitValue(text[Len(text)])

\* faulty variant: the digits are read from the right
texttoint_reversed(text) ==
    IF text = <<>> THEN 0
    ELSE int([i \in 1..Len(text) |-> text[Len(text) + 1 - i]])

texttoint(text) ==
    IF text = <<>> THEN 0 ELSE int(text)

\* input_network is held already split into lines and cells (lines 41-42);
\* df.loc[row, column] is df[row, column].
wrangle(network, names) ==
    [row \in Labels, column \in Labels |->
        LET cost == network[IndexOf(names, row) + 1][IndexOf(names, column) + 1]
        IN  IF cost # <<"-">> THEN texttoint(cost) ELSE 0]

(***************************************************************************)
(* get_nodes: every vertex's edges, sorted by cost with a stable sort.     *)
(***************************************************************************)
\* the inner loop over df.columns, lines 97-102
RECURSIVE RowEdges(_, _, _)
RowEdges(d, row, j) ==
    IF j > Len(vertices_name) THEN <<>>
    ELSE LET column == vertices_name[j]
         IN  IF row = column \/ d[row, column] = 0
             THEN RowEdges(d, row, j + 1)
             ELSE <<<<row, column, d[row, column]>>>> \o RowEdges(d, row, j + 1)

\* insert x after every element whose key is <= x's key: stable
RECURSIVE InsertByCost(_, _)
InsertByCost(sortedList, x) ==
    IF sortedList = <<>> THEN <<x>>
    ELSE IF sortedList[Len(sortedList)][3] <= x[3] THEN Append(sortedList, x)
    ELSE Append(InsertByCost(SubSeq(sortedList, 1, Len(sortedList) - 1), x),
                sortedList[Len(sortedList)])

RECURSIVE SortRec(_, _)
SortRec(nodes, k) ==
    IF k = 0 THEN <<>> ELSE InsertByCost(SortRec(nodes, k - 1), nodes[k])

\* faulty variant: the edges stay in column order
sorted_unsorted(nodes) == nodes

\* sorted(nodes, key=lambda x: x[2])
sorted(nodes) == SortRec(nodes, Len(nodes))

RECURSIVE GetNodesRec(_, _)
GetNodesRec(d, i) ==
    IF i > Len(vertices_name) THEN <<>>
    ELSE LET temp == RowEdges(d, vertices_name[i], 1)
         IN  IF temp # <<>> THEN <<sorted(temp)>> \o GetNodesRec(d, i + 1)
             ELSE GetNodesRec(d, i + 1)

get_nodes(d) == GetNodesRec(d, 1)

(***************************************************************************)
(* get_unique_nodes: every distinct edge once, in row-major order.         *)
(***************************************************************************)
\* faulty variant: the reversed pair column+row is not looked up
Seen_forward_only(row, column, seen) == In(row \o column, seen)

\* line 71: row+column in seen or column+row in seen
Seen(row, column, seen) == In(row \o column, seen) \/ In(column \o row, seen)

\* the inner loop over df.columns, lines 66-74; seen is shared by all rows
RECURSIVE UniqueRow(_, _, _, _, _)
UniqueRow(d, row, j, temp, seen) ==
    IF j > Len(vertices_name) THEN [temp |-> temp, seen |-> seen]
    ELSE LET column == vertices_name[j]
         IN  IF row = column \/ d[row, column] = 0 \/ Seen(row, column, seen)
             THEN UniqueRow(d, row, j + 1, temp, seen)
             ELSE UniqueRow(d, row, j + 1,
                            Append(temp, <<row, column, d[row, column]>>),
                            Append(seen, row \o column))

RECURSIVE UniqueRec(_, _, _)
UniqueRec(d, i, seen) ==
    IF i > Len(vertices_name) THEN <<>>
    ELSE LET r == UniqueRow(d, vertices_name[i], 1, <<>>, seen)
         IN  IF r.temp # <<>> THEN <<r.temp>> \o UniqueRec(d, i + 1, r.seen)
             ELSE UniqueRec(d, i + 1, r.seen)

get_unique_nodes(d) == UniqueRec(d, 1, <<>>)

\* line 286: [edge for node in unique_nodes for edge in node]
RECURSIVE Flatten(_)
Flatten(nodes) ==
    IF nodes = <<>> THEN <<>> ELSE Head(nodes) \o Flatten(Tail(nodes))

(***************************************************************************)
(* get_shortest_edges and find_unique_node.                                *)
(***************************************************************************)
get_shortest_edges(vertices) == [k \in 1..Len(vertices) |-> vertices[k][1]]

\* The for loop of lines 148-154.  i is the list iterator's 0-based position:
\* it advances by one on every round, also after edges.remove(edge) has
\* shifted the rest of the list left, and the loop ends when i >= len(edges).
RECURSIVE FindUniqueLoop(_, _, _)
FindUniqueLoop(edges, i, selected) ==
    IF i >= Len(edges) THEN edges
    ELSE LET edge   == edges[i + 1]
             row    == edge[1]
             column == edge[2]
         IN  IF In(row \o column, selected) \/ In(column \o row, selected)
             THEN FindUniqueLoop(Remove(edges, edge), i + 1, selected)
             ELSE FindUniqueLoop(edges, i + 1, Append(selected, row \o column))

find_unique_node(edges) == FindUniqueLoop(edges, 0, <<>>)

(***************************************************************************)
(* get_connected_nodes: seeded with the first edge, two scans of the list. *)
(***************************************************************************)
\* one execution of the inner for loop, lines 177-184
RECURSIVE ScanEdges(_, _, _)
ScanEdges(edge_name, k, connected) ==
    IF k > Len(edge_name) THEN connected
    ELSE LET name == edge_name[k]
         IN  IF ~In(name[1], connected)
             THEN IF ~In(name[2], connected)
                  THEN ScanEdges(edge_name, k + 1, connected)
                  ELSE ScanEdges(edge_name, k + 1, Append(connected, name[1]))
             ELSE IF ~In(name[2], connected)
                  THEN ScanEdges(edge_name, k + 1, Append(connected, name[2]))
                  ELSE ScanEdges(edge_name, k + 1, connected)

\* for i in range(2)
RECURSIVE Passes(_, _, _)
Passes(edge_name, i, connected) ==
    IF i >= 2 THEN connected
    ELSE Passes(edge_name, i + 1, ScanEdges(edge_name, 1, connected))

\* faulty variant: every endpoint of every edge counts as connected,
\* whether or not it is linked to the first edge
RECURSIVE Endpoints(_, _, _)
Endpoints(edge_name, k, connected) ==
    IF k > Len(edge_name) THEN connected
    ELSE LET name == edge_name[k]
             c1   == IF In(name[1], connected) THEN connected
                     ELSE Append(connected, name[1])
             c2   == IF In(name[2], c1) THEN c1 ELSE Append(c1, name[2])
         IN  Endpoints(edge_name, k + 1, c2)

get_connected_nodes_any_endpoint(edges) ==
    Endpoints([k \in 1..Len(edges) |-> SubSeq(edges[k], 1, 2)], 1,
              SubSeq(edges[1], 1, 2))

\* called with a non-empty list only (shortest_edges[0] raises otherwise)
get_connected_nodes(edges) ==
    LET seed      == SubSeq(edges[1], 1, 2)
        edge_name == [k \in 1..Len(edges) |-> SubSeq(edges[k], 1, 2)]
    IN  Passes(edge_name, 0, seed)

\* [x for x in node_names if x not in connected_nodes]
Isolated(node_names, connected) ==
    SelectSeq(node_names, LAMBDA x : ~In(x, connected))

(***************************************************************************)
(* network_cost.                                                           *)
(***************************************************************************)
RECURSIVE CostLoop(_, _, _)
CostLoop(graph, k, sum) ==
    IF k > Len(graph) THEN sum ELSE CostLoop(graph, k + 1, sum + graph[k][3])

\* faulty variant: the first edge is left out of the sum
network_cost_skip_first(graph) == CostLoop(graph, 2, 0)

network_cost(graph) == CostLoop(graph, 1, 0)

(***************************************************************************)
(* Input matrices.  Each is one of five base networks, as written or with  *)
(* one cell (or one cell and its mirror cell) overwritten by a cost in     *)
(* 0..MaxCost, so that symmetric and asymmetric matrices, ties, missing    *)
(* edges and vertices without edges all occur.                             *)
(***************************************************************************)
RECURSIVE ToToken(_)
ToToken(n) ==
    IF n < 10 THEN <<Digits[n + 1]>>
    ELSE ToToken(n \div 10) \o <<Digits[(n % 10) + 1]>>

SymmetricCost(edges, u, v) ==
    IF \E e \in edges : {e[1], e[2]} = {u, v}
    THEN (CHOOSE e \in edges : {e[1], e[2]} = {u, v})[3]
    ELSE 0

NetworkOf(edges) ==
    [i \in 1..Len(vertices_name) |-> [j \in 1..Len(vertices_name) |->
        LET c == SymmetricCost(edges, vertices_name[i], vertices_name[j])
        IN  IF c = 0 THEN <<"-">> ELSE ToToken(c)]]

\* the network of the example usage; its third line holds one empty cell
ExampleEdges ==
    { <<"A", "B", 14>>, <<"A", "C", 10>>, <<"A", "D", 19>>, <<"B", "D", 15>>,
      <<"B", "E", 18>>, <<"C", "D", 26>>, <<"C", "F", 29>>, <<"D", "E", 16>>,
      <<"D", "F", 17>>, <<"D", "G", 21>>, <<"E", "G", 9>>,  <<"F", "G", 25>> }

ExampleNetwork == [NetworkOf(ExampleEdges) EXCEPT ![3][5] = <<>>]

\* a path whose cheapest edges point "backwards" in label order
ChainEdges ==
    { <<"A", "B", 1>>, <<"A", "G", 2>>, <<"F", "G", 3>>, <<"E", "F", 4>>,
      <<"D", "E", 5>>, <<"C", "D", 6>> }

\* A-C and B-D are both mutually cheapest
TwoPairsEdges ==
    { <<"A", "C", 1>>, <<"B", "D", 1>>, <<"A", "E", 2>>, <<"B", "F", 2>>,
      <<"A", "G", 3>>, <<"C", "D", 5>>, <<"E", "F", 4>> }

\* two cheap clusters joined by one expensive edge; every vertex has two edges
ClustersEdges ==
    { <<"A", "B", 1>>, <<"A", "C", 1>>, <<"B", "C", 1>>, <<"D", "E", 1>>,
      <<"E", "F", 1>>, <<"F", "G", 1>>, <<"D", "G", 1>>, <<"D", "F", 1>>,
      <<"C", "G", 9>> }

\* a spanning tree
TreeEdges ==
    { <<"D", "G", 2>>, <<"A", "B", 4>>, <<"A", "F", 1>>, <<"B", "D", 4>>,
      <<"E", "G", 3>>, <<"A", "C", 3>> }

BaseNetworks ==
    { ExampleNetwork, NetworkOf(ChainEdges), NetworkOf(TwoPairsEdges),
      NetworkOf(ClustersEdges), NetworkOf(TreeEdges) }

Overwrite(network, i, j, w, both) ==
    LET cell == IF w = 0 THEN <<>> ELSE ToToken(w)
        one  == [network EXCEPT ![i][j] = cell]
    IN  IF both THEN [one EXCEPT ![j][i] = cell] ELSE one

OffDiagonal ==
    { cell \in (1..Len(vertices_name)) \X (1..Len(vertices_name)) :
        cell[1] # cell[2] }

Inputs ==
    BaseNetworks \cup
    { Overwrite(b, cell[1], cell[2], w, both) :
        b \in BaseNetworks,
        cell \in OffDiagonal,
        w \in 0..MaxCost,
        both \in BOOLEAN }

(***************************************************************************)
(* The state machine: maximum_saving, one action per statement group.      *)
(***************************************************************************)
Init ==
    /\ pc = "wrangle"
    /\ input_network \in Inputs
    /\ df = <<>>
    /\ all_nodes = <<>>
    /\ shortest_edges = <<>>
    /\ connected_nodes = <<>>
    /\ isolated_nodes = <<>>
    /\ initial_length = 0
    /\ tmp = ""
    /\ new_node = <<>>
    /\ all_unique_edges = <<>>
    /\ max_cost = 0
    /\ min_cost = 0
    /\ max_saving = 0

\* line 266
Wrangle ==
    /\ pc = "wrangle"
    /\ df' = wrangle(input_network, vertices_name)
    /\ pc' = "get_nodes"
    /\ UNCHANGED <<input_network, all_nodes, shortest_edges, connected_nodes,
                   isolated_nodes, initial_length, tmp, new_node,
                   all_unique_edges, max_cost, min_cost, max_saving>>

\* line 269
GetNodes ==
    /\ pc = "get_nodes"
    /\ all_nodes' = get_nodes(df)
    /\ pc' = "get_shortest_edges"
    /\ UNCHANGED <<input_network, df, shortest_edges, connected_nodes,
                   isolated_nodes, initial_length, tmp, new_node,
                   all_unique_edges, max_cost, min_cost, max_saving>>

\* line 272
GetShortestEdges ==
    /\ pc = "get_shortest_edges"
    /\ shortest_edges' = get_shortest_edges(all_nodes)
    /\ pc' = "find_unique_node"
    /\ UNCHANGED <<input_network, df, all_nodes, connected_nodes,
                   isolated_nodes, initial_length, tmp, new_node,
                   all_unique_edges, max_cost, min_cost, max_saving>>

\* line 275
FindUniqueNode ==
    /\ pc = "find_unique_node"
    /\ shortest_edges' = find_unique_node(shortest_edges)
    /\ pc' = "get_connected_nodes"
    /\ UNCHANGED <<input_network, df, all_nodes, connected_nodes,
                   isolated_nodes, initial_length, tmp, new_node,
                   all_unique_edges, max_cost, min_cost, max_saving>>

\* lines 278-279, and the entry of add_isolated_node (lines 282, 216).
\* shortest_edges[0] of an empty list raises IndexError (line 173).
GetConnectedNodes ==
    /\ pc = "get_connected_nodes"
    /\ IF shortest_edges = <<>>
       THEN /\ pc' = "IndexError"
            /\ UNCHANGED <<connected_nodes, isolated_nodes, initial_length>>
       ELSE LET connected == get_connected_nodes(shortest_edges)
            IN  /\ connected_nodes' = connected
                /\ isolated_nodes' = Isolated(vertices_name, connected)
                /\ initial_length' = Len(shortest_edges)
                /\ pc' = "add_isolated_node"
    /\ UNCHANGED <<input_network, df, all_nodes, shortest_edges, tmp, new_node,
                   all_unique_edges, max_cost, min_cost, max_saving>>

\* One round of the while loop, lines 217-222.  vertices[k] and [1] raise
\* IndexError when out of range.
AddIsolatedNode ==
    /\ pc = "add_isolated_node"
    /\ isolated_nodes # <<>>
    /\ Len(shortest_edges) - initial_length < MaxAppend
    /\ tmp' = isolated_nodes[1]
    /\ LET k == IndexOf(vertices_name, isolated_nodes[1])
       IN  IF k >= Len(all_nodes) \/ Len(all_nodes[k + 1]) < 2
           THEN /\ pc' = "IndexError"
                /\ UNCHANGED <<new_node, shortest_edges, connected_nodes,
                               isolated_nodes>>
           ELSE LET edge      == all_nodes[k + 1][2]
                    appended  == Append(shortest_edges, edge)
                    connected == get_connected_nodes(appended)
                IN  /\ new_node' = edge
                    /\ shortest_edges' = appended
                    /\ connected_nodes' = connected
                    /\ isolated_nodes' = Isolated(vertices_name, connected)
                    /\ pc' = "add_isolated_node"
    /\ UNCHANGED <<input_network, df, all_nodes, initial_length,
                   all_unique_edges, max_cost, min_cost, max_saving>>

\* lines 217, 224-225: the loop ends; the returned count is not used (line 282)
AddIsolatedReturn ==
    /\ pc = "add_isolated_node"
    /\ isolated_nodes = <<>>
    /\ pc' = "costs"
    /\ UNCHANGED <<input_network, df, all_nodes, shortest_edges,
                   connected_nodes, isolated_nodes, initial_length, tmp,
                   new_node, all_unique_edges, max_cost, min_cost, max_saving>>

\* lines 285-295
Costs ==
    /\ pc = "costs"
    /\ LET unique_nodes == get_unique_nodes(df)
           edges        == Flatten(unique_nodes)
       IN  /\ all_unique_edges' = edges
           /\ max_cost' = network_cost(edges)
           /\ min_cost' = network_cost(shortest_edges)
           /\ max_saving' = network_cost(edges) - network_cost(shortest_edges)
    /\ pc' = "done"
    /\ UNCHANGED <<input_network, df, all_nodes, shortest_edges,
                   connected_nodes, isolated_nodes, initial_length, tmp,
                   new_node>>

Next ==
    \/ Wrangle
    \/ GetNodes
    \/ GetShortestEdges
    \/ FindUniqueNode
    \/ GetConnectedNodes
    \/ AddIsolatedNode
    \/ AddIsolatedReturn
    \/ Costs

Spec == Init /\ [][Next]_vars

\* The program is sequential and keeps running: a round of the repair loop
\* that can be taken is taken, and so is the return from the loop.
\* It is checked on the base networks and the symmetric overwrites of the
\* two-cluster network.
LoopInputs ==
    BaseNetworks \cup
    { Overwrite(NetworkOf(ClustersEdges), cell[1], cell[2], w, TRUE) :
        cell \in OffDiagonal, w \in {0, MaxCost} }

FairInit == Init /\ input_network \in LoopInputs

FairSpec ==
    /\ FairInit
    /\ [][Next]_vars
    /\ WF_vars(AddIsolatedNode)
    /\ WF_vars(AddIsolatedReturn)

(***************************************************************************)
(* Vocabulary of the properties.                                           *)
(***************************************************************************)
Parsed == pc # "wrangle"

Before(u, v) == IndexOf(vertices_name, u) < IndexOf(vertices_name, v)

\* the neighbours of v: some cell between v and w holds a cost
Neighbours(d, v) == {w \in Labels \ {v} : d[v, w] # 0 \/ d[w, v] # 0}

\* the non-zero off-diagonal cells of row v
RowColumns(d, v) == {w \in Labels \ {v} : d[v, w] # 0}

EveryVertexHasEdge == \A v \in Labels : Neighbours(df, v) # {}

Symmetric(d) == \A u, v \in Labels : d[u, v] = d[v, u]

SamePair(e, f) == {e[1], e[2]} = {f[1], f[2]}

\* the labels reachable from the set S along the edges of a list
RECURSIVE Reachable(_, _)
Reachable(S, edges) ==
    LET T == S \cup {x \in Labels : \E k \in 1..Len(edges) :
                        \/ edges[k][1] \in S /\ edges[k][2] = x
                        \/ edges[k][2] \in S /\ edges[k][1] = x}
    IN  IF T = S THEN S ELSE Reachable(T, edges)

\* the labels reachable from the set S in the graph of the cost table
RECURSIVE ReachableInGraph(_, _)
ReachableInGraph(S, d) ==
    LET T == S \cup UNION {Neighbours(d, v) : v \in S}
    IN  IF T = S THEN S ELSE ReachableInGraph(T, d)

RECURSIVE SumOver(_, _)
SumOver(S, f) ==
    IF S = {} THEN 0
    ELSE LET x == CHOOSE y \in S : TRUE IN f[x] + SumOver(S \ {x}, f)

\* add_isolated_node has returned to maximum_saving
Returned == pc \in {"costs", "done"}

\* connected_nodes is get_connected_nodes of the current shortest_edges
ConnectedComputed == pc \in {"add_isolated_node", "costs", "done"}

(***************************************************************************)
(* C1.  The flattened result of get_unique_nodes holds exactly one edge    *)
(* for every unordered pair {u, v}, u # v, with a non-zero cell (u, v) or  *)
(* (v, u), no edge for any other pair, and the edge kept is the one met    *)
(* first in the row-major scan.                                            *)
(***************************************************************************)
FirstMet(d, u, v) ==
    LET a == IF Before(u, v) THEN u ELSE v
        b == IF Before(u, v) THEN v ELSE u
    IN  IF d[a, b] # 0 THEN <<a, b, d[a, b]>> ELSE <<b, a, d[b, a]>>

DistinctEdgesOf(d, es) ==
    /\ \A u, v \in Labels :
          (u # v /\ (d[u, v] # 0 \/ d[v, u] # 0)) =>
              Cardinality({k \in 1..Len(es) : {es[k][1], es[k][2]} = {u, v}}) = 1
    /\ \A k \in 1..Len(es) :
          /\ es[k][1] # es[k][2]
          /\ es[k][3] # 0
          /\ es[k] = FirstMet(d, es[k][1], es[k][2])

C1_DistinctEdgesExactlyOnce ==
    /\ Parsed => DistinctEdgesOf(df, Flatten(get_unique_nodes(df)))
    /\ pc = "done" => DistinctEdgesOf(df, all_unique_edges)

\* an edge read from the lower triangle because its mirror cell is empty
C1_Witness ==
    /\ pc = "done"
    /\ \E k \in 1..Len(all_unique_edges) :
          /\ Before(all_unique_edges[k][2], all_unique_edges[k][1])
          /\ df[all_unique_edges[k][2], all_unique_edges[k][1]] = 0

(***************************************************************************)
(* C2.  When every vertex has an incident edge and add_isolated_node has   *)
(* returned, every label is in the connected set and the final edge list   *)
(* connects every label to every other.                                    *)
(***************************************************************************)
C2_NoIsolatedVertexAfterRepair ==
    (Returned /\ EveryVertexHasEdge) =>
        /\ \A v \in Labels : In(v, connected_nodes)
        /\ \A v \in Labels : In(v, get_connected_nodes(shortest_edges))
        /\ \A v \in Labels : Reachable({v}, shortest_edges) = Labels

\* the repair loop appended at least one edge before returning
C2_Witness ==
    /\ pc = "done"
    /\ EveryVertexHasEdge
    /\ Len(shortest_edges) > initial_length
    /\ \A v \in Labels : Reachable({v}, shortest_edges) = Labels

(***************************************************************************)
(* C3.  The list find_unique_node returns holds each unordered pair at     *)
(* most once, the kept edges in first-occurrence order.                    *)
(***************************************************************************)
\* the candidate list filtered into a new list, first occurrences kept
RECURSIVE FilterUnique(_, _, _)
FilterUnique(edges, i, selected) ==
    IF i >= Len(edges) THEN <<>>
    ELSE LET edge == edges[i + 1]
         IN  IF In(edge[1] \o edge[2], selected) \/ In(edge[2] \o edge[1], selected)
             THEN FilterUnique(edges, i + 1, selected)
             ELSE <<edge>> \o FilterUnique(edges, i + 1,
                                           Append(selected, edge[1] \o edge[2]))

C3_NoDuplicateAfterDedup ==
    pc = "get_connected_nodes" =>
        /\ \A i, j \in 1..Len(shortest_edges) :
              i # j => ~SamePair(shortest_edges[i], shortest_edges[j])
        /\ shortest_edges = FilterUnique(get_shortest_edges(all_nodes), 0, <<>>)

(***************************************************************************)
(* C4.  When the graph is connected and every vertex has at least two      *)
(* incident edges, the repair loop reaches an empty isolated list.         *)
(***************************************************************************)
ConnectedWithTwoEdgesEach ==
    /\ Parsed
    /\ \A v \in Labels : Cardinality(RowColumns(df, v)) >= 2
    /\ \A v \in Labels : ReachableInGraph({v}, df) = Labels

CapReachedOnlyByRepeats ==
    (/\ pc = "add_isolated_node"
     /\ isolated_nodes # <<>>
     /\ Len(shortest_edges) - initial_length >= MaxAppend) =>
        /\ shortest_edges[Len(shortest_edges)] = shortest_edges[Len(shortest_edges) - 1]
        /\ isolated_nodes[1] = tmp

(***************************************************************************)
(* C5.  When the repair step picks a vertex with fewer than two incident   *)
(* edges the computation ends in InsufficientEdgesError.                   *)
(***************************************************************************)
C5_InsufficientEdgesError ==
    (tmp # "" /\ Cardinality(Neighbours(df, tmp)) < 2) =>
        pc = "InsufficientEdgesError"

(***************************************************************************)
(* C6.  A vertex without incident edges is omitted by get_nodes, the       *)
(* repair never looks up out of range, and the list it reads for the       *)
(* picked vertex is that vertex's own list.                                *)
(***************************************************************************)
HasVertexWithoutEdges == Parsed /\ \E v \in Labels : Neighbours(df, v) = {}

C6_VertexWithoutEdgesIsHarmless ==
    HasVertexWithoutEdges =>
        /\ \A k \in 1..Len(all_nodes) : Neighbours(df, all_nodes[k][1][1]) # {}
        /\ pc # "IndexError"
        /\ new_node # <<>> => new_node[1] = tmp

(***************************************************************************)
(* C7.  maximum_saving returns the cost of all distinct edges minus the    *)
(* cost of the repaired edge list, and that saving can be negative.        *)
(***************************************************************************)
UnorderedPairs == {p \in Labels \X Labels : Before(p[1], p[2])}

TotalCost(d) ==
    SumOver(UnorderedPairs,
            [p \in UnorderedPairs |-> FirstMet(d, p[1], p[2])[3]])

MinimalCost(edges) ==
    SumOver(1..Len(edges), [k \in 1..Len(edges) |-> edges[k][3]])

C7_SavingIsTotalMinusMinimal ==
    pc = "done" =>
        /\ max_cost = TotalCost(df)
        /\ min_cost = MinimalCost(shortest_edges)
        /\ max_saving = TotalCost(df) - MinimalCost(shortest_edges)

\* a symmetric matrix, every vertex with an edge, repair done, saving < 0
C7_Witness ==
    /\ pc = "done"
    /\ Symmetric(df)
    /\ EveryVertexHasEdge
    /\ Len(shortest_edges) > initial_length
    /\ max_saving < 0

(***************************************************************************)
(* C8.  For the network of the example usage the cost of all distinct      *)
(* edges is 219.                                                           *)
(***************************************************************************)
C8_ExampleTotalCost ==
    (input_network = ExampleNetwork /\ pc = "done") => max_cost = 219

C8_Witness ==
    /\ input_network = ExampleNetwork
    /\ pc = "done"
    /\ Len(all_unique_edges) = 12
    /\ max_cost = 219

(***************************************************************************)
(* C9.  The connected set returned by get_connected_nodes is closed: no    *)
(* edge of the list has exactly one endpoint in it.                        *)
(***************************************************************************)
C9_TwoPassesReachClosure ==
    ConnectedComputed =>
        \A k \in 1..Len(shortest_edges) :
            In(shortest_edges[k][1], connected_nodes)
                <=> In(shortest_edges[k][2], connected_nodes)

(***************************************************************************)
(* C10.  get_nodes lists, for every vertex with a non-zero off-diagonal    *)
(* cell in its row, exactly those cells by ascending cost, ties in column  *)
(* order; get_shortest_edges takes the first: the minimum cost of the row  *)
(* at the first column that attains it.                                    *)
(***************************************************************************)
RowsWithEdges == SelectSeq(vertices_name, LAMBDA v : RowColumns(df, v) # {})

CheapestOf(d, v) ==
    LET w == CHOOSE x \in RowColumns(d, v) :
                 \A y \in RowColumns(d, v) :
                     \/ d[v, x] < d[v, y]
                     \/ (d[v, x] = d[v, y] /\ (x = y \/ Before(x, y)))
    IN  <<v, w, d[v, w]>>

SortedListOf(d, v, list) ==
    /\ \A i \in 1..Len(list) :
          /\ list[i][1] = v
          /\ list[i][2] \in RowColumns(d, v)
          /\ list[i][3] = d[v, list[i][2]]
    /\ \A w \in RowColumns(d, v) :
          Cardinality({i \in 1..Len(list) : list[i][2] = w}) = 1
    /\ \A i, j \in 1..Len(list) :
          i < j => \/ list[i][3] < list[j][3]
                   \/ (list[i][3] = list[j][3] /\ Before(list[i][2], list[j][2]))

C10_CheapestEdgePerVertex ==
    /\ pc \notin {"wrangle", "get_nodes"} =>
          /\ Len(all_nodes) = Len(RowsWithEdges)
          /\ \A k \in 1..Len(all_nodes) :
                SortedListOf(df, RowsWithEdges[k], all_nodes[k])
    /\ pc = "find_unique_node" =>
          /\ Len(shortest_edges) = Len(RowsWithEdges)
          /\ \A k \in 1..Len(shortest_edges) :
                shortest_edges[k] = CheapestOf(df, RowsWithEdges[k])

\* a row whose minimum is attained twice, behind a dearer earlier column
C10_Witness ==
    /\ pc = "find_unique_node"
    /\ \E k \in 1..Len(shortest_edges) :
          LET v == shortest_edges[k][1]
              w == shortest_edges[k][2]
          IN  /\ \E x \in RowColumns(df, v) : Before(w, x) /\ df[v, x] = df[v, w]
              /\ \E x \in RowColumns(df, v) : Before(x, w) /\ df[v, x] > df[v, w]

=============================================================================
